---- MODULE Spec2Model ----
(***************************************************************************)
(* Model of pkg/controller/controller.go (Provisioner): two rate-limited   *)
(* work queues fed by informer callbacks, the change filter                *)
(* shouldEnqueueVAChange, the worker loops syncVA / syncPV started by Run  *)
(* after WaitForCacheSync, and Run's deferred ShutDown of both queues.     *)
(*                                                                         *)
(* The worker goroutines of one queue run the same code and carry no       *)
(* identity, so they are counted per position instead of being named:      *)
(* workers[kind].top / .get / .exited and busy[<<kind, key, pc>>].         *)
(*                                                                         *)
(* path records the branch a worker took after the lookup; trace is a      *)
(* history of the calls made for a key and is written only in the runs     *)
(* that start from InitTraced. The rate limiter built in                   *)
(* cmd/csi-attacher/main.go is exercised on its own by the backoff runs.   *)
(***************************************************************************)
EXTENDS Naturals, Sequences, FiniteSets, TLC

\* ----------------------------------------------------------------- bounds
Workers == 2
MaxFailures == 1
\* The longest run of AddRateLimited calls for one key in the backoff runs.
MaxRetries == 10

\* ------------------------------------------------------------- the objects
VAKeys == {"va1"}
PVKeys == {"pv1"}
Kinds == {"va", "pv"}
Keys(kind) == IF kind = "va" THEN VAKeys ELSE PVKeys

attacherName == "csi-this"
Attachers == {attacherName, "csi-other"}
Nil == "nil"
VolumeErrors == {"e1", "e2"}
ResourceVersions == {"1", "2"}
NotFound == [name |-> Nil]
\* A nil *storage.VolumeAttachment handed to a callback.
NilVA == [name |-> Nil]

\* storage.VolumeAttachment, the fields the controller reads or compares.
VAObjects(attachers, pvs, attachErrors, detachErrors) ==
    [name : VAKeys, attacher : attachers, pv : pvs,
     attachError : attachErrors, detachError : detachErrors,
     resourceVersion : ResourceVersions]

\* The objects handed to the callbacks in the notification-only runs.
VolumeAttachments ==
    VAObjects({attacherName}, PVKeys \cup {Nil}, VolumeErrors \cup {Nil}, {"e1", Nil})

\* v1.PersistentVolume: the controller reads its name only.
PersistentVolumes == [name : PVKeys]
\* The PersistentVolumes handed to the callbacks in the notification-only runs.
PVObjects == [name : PVKeys, resourceVersion : ResourceVersions]

\* The objects the informer delivers while the workers run: attachments of
\* this or another attacher, with or without an attach error, that name no
\* PersistentVolume.
CachedVAs == VAObjects(Attachers, {Nil}, {"e1", Nil}, {Nil})

\* The keys of the backoff runs.
BackoffKeys == {"k1", "k2"}

PCs == {"lookup", "requeue", "handler", "done"}
\* The ways through syncVA / syncPV after the lookup: the object is not found,
\* another error, an attachment of another attacher, the Handler is called.
Paths == {"notfound", "error", "skipped", "handler"}
WorkItems ==
    {<<"va", k, pc>> : k \in VAKeys, pc \in PCs} \cup {<<"pv", k, pc>> : k \in PVKeys, pc \in PCs}

VARIABLES
    vaQueue, pvQueue,      \* Provisioner.vaQueue, Provisioner.pvQueue
    vaCache, pvCache,      \* what vaLister / pvLister serve
    synced,                \* vaListerSynced, pvListerSynced
    stopCh,                \* TRUE once stopCh is closed
    runPc, syncResult,     \* Run's position and WaitForCacheSync's result
    workers, busy,         \* the worker goroutines, by position
    invoked,               \* whether the Handler's sync was ever called, per kind
    path,                  \* the branch the worker that holds a key took after its lookup
    watched,               \* the resource kind whose objects change in this run
    lastEvent,             \* the last informer callback (notification runs only)
    backoff,               \* a rate limiter and its last delays (backoff runs only)
    trace                  \* who added each key, a history kept in the traced runs only

vars == <<vaQueue, pvQueue, vaCache, pvCache, synced, stopCh, runPc, syncResult,
          workers, busy, invoked, path, watched, lastEvent, backoff, trace>>

\* ------------------------------------------------------------ the work queue
\* workqueue.RateLimitingInterface: queue is the FIFO of keys to hand out,
\* dirty the keys that need processing, processing the keys handed out and
\* not yet Done, waiting the keys of AddRateLimited whose delay has not
\* elapsed, failures the rate limiter's per-key counter.  adds is a history
\* field: how often Add(k) took effect or coalesced since k was last handed out;
\* idleAtShutDown another: whether the queue was empty when ShutDown was
\* called, so that every caller of Get was blocked.
NewQueue(keys) ==
    [queue |-> <<>>, dirty |-> {}, processing |-> {}, shuttingDown |-> FALSE,
     waiting |-> {}, failures |-> [k \in keys |-> 0],
     adds |-> [k \in keys |-> "none"], idleAtShutDown |-> FALSE]

InQueue(q, k) == \E i \in 1..Len(q.queue) : q.queue[i] = k
Count(q, k) == Cardinality({i \in 1..Len(q.queue) : q.queue[i] = k})

Bump(a) == IF a = "none" THEN "once" ELSE "repeated"

\* Mutant: Add appends without looking at the dirty set.
QAdd_NoCoalescing(q, k) ==
    IF q.shuttingDown THEN q
    ELSE LET d == [q EXCEPT !.adds[k] = Bump(@), !.dirty = @ \cup {k}]
         IN IF k \in q.processing THEN d
            ELSE [d EXCEPT !.queue = Append(@, k)]

QAdd(q, k) ==
    IF q.shuttingDown THEN q
    ELSE LET g == [q EXCEPT !.adds[k] = Bump(@)]
         IN IF k \in q.dirty THEN g
            ELSE LET d == [g EXCEPT !.dirty = @ \cup {k}]
                 IN IF k \in q.processing THEN d
                    ELSE [d EXCEPT !.queue = Append(@, k)]

\* Get blocks while the queue is empty and not shutting down.
QGetReady(q) == Len(q.queue) > 0 \/ q.shuttingDown
QGetQuit(q) == Len(q.queue) = 0
QGetKey(q) == Head(q.queue)
QGet(q) ==
    LET k == Head(q.queue)
    IN [q EXCEPT !.queue = Tail(@), !.processing = @ \cup {k},
                 !.dirty = @ \ {k}, !.adds[k] = "none"]

QDone(q, k) ==
    LET p == [q EXCEPT !.processing = @ \ {k}]
    IN IF k \in q.dirty THEN [p EXCEPT !.queue = Append(@, k)] ELSE p

QShutDown(q) ==
    [q EXCEPT !.shuttingDown = TRUE,
              !.idleAtShutDown = IF q.shuttingDown THEN @ ELSE Len(q.queue) = 0]

\* ------------------------------------------------------- the rate limiter
\* -retry-interval-start and -retry-interval-max, in seconds.
retryIntervalStart == 1
retryIntervalMax == 300

\* Mutant: the two intervals are passed in the wrong order.
NewRateLimiter_Swapped == [baseDelay |-> retryIntervalMax, maxDelay |-> retryIntervalStart]

\* workqueue.NewItemExponentialFailureRateLimiter(*retryIntervalStart, *retryIntervalMax)
NewRateLimiter == [baseDelay |-> retryIntervalStart, maxDelay |-> retryIntervalMax]

\* ItemExponentialFailureRateLimiter.When(k) with failures[k] earlier
\* failures: the delay starts at baseDelay, doubles per failure and is capped
\* at maxDelay.  The call then counts the failure (RateLimiterFailed).
RateLimiterWhen(limiter, failures, k) ==
    LET d == limiter.baseDelay * 2 ^ failures[k]
    IN IF d > limiter.maxDelay THEN limiter.maxDelay ELSE d

RateLimiterFailed(failures, k) == [failures EXCEPT ![k] = @ + 1]

RateLimiterForget(failures, k) == [failures EXCEPT ![k] = 0]

\* AddRateLimited(k) = AddAfter(k, rateLimiter.When(k)): When counts the
\* failure; AddAfter parks the key unless the queue is shutting down.
QAddRateLimited(q, k) ==
    LET w == [q EXCEPT !.failures = RateLimiterFailed(@, k)]
    IN IF q.shuttingDown THEN w ELSE [w EXCEPT !.waiting = @ \cup {k}]

QForget(q, k) == [q EXCEPT !.failures = RateLimiterForget(@, k)]

\* The delay of a parked key elapses: the delaying queue calls Add.
QTimer(q, k) == QAdd([q EXCEPT !.waiting = @ \ {k}], k)

Q(kind) == IF kind = "va" THEN vaQueue ELSE pvQueue
SetQ(kind, q) ==
    IF kind = "va" THEN vaQueue' = q /\ UNCHANGED pvQueue
                   ELSE pvQueue' = q /\ UNCHANGED vaQueue

\* ------------------------------------------------------------------- Init
\* The controller as NewCSIAttachController leaves it, with Run called and
\* waiting for the caches.  watched bounds the environment of a run: the
\* objects of one resource kind change in it, those of the other do not exist.
\* A rate limiter as main creates it, nothing counted yet.  delay is the
\* delay of each key's last AddRateLimited (0: none yet); streak is a history
\* field: the AddRateLimited calls for the key since its last Forget.
NewBackoff ==
    [limiter |-> NewRateLimiter,
     failures |-> [k \in BackoffKeys |-> 0],
     delay |-> [k \in BackoffKeys |-> 0],
     streak |-> [k \in BackoffKeys |-> 0]]

\* The history of the traced runs, per queue and key.  prev: the path of the
\* key's last finished iteration; legit: since the key was last handed out, an
\* Add by a notification or by the Handler (its Add, or the timer of its
\* AddRateLimited) took effect or coalesced; backoffAdd: so did the timer of
\* an AddRateLimited that a worker called after a lookup error; byHandler:
\* the Handler has called AddRateLimited for the key that is parked now.
NoTrace(on) ==
    [on |-> on,
     prev |-> [kind \in Kinds |-> [k \in Keys(kind) |-> "none"]],
     legit |-> [kind \in Kinds |-> [k \in Keys(kind) |-> FALSE]],
     backoffAdd |-> [kind \in Kinds |-> [k \in Keys(kind) |-> FALSE]],
     byHandler |-> [kind \in Kinds |-> [k \in Keys(kind) |-> FALSE]]]

\* The history is written in the traced runs and left alone in the others.
Traced(t) == trace' = IF trace.on THEN t ELSE trace

\* Add(k) on the queue of kind, called by a notification or by the Handler.
TraceAdd(kind, k) ==
    IF Q(kind).shuttingDown THEN trace ELSE [trace EXCEPT !.legit[kind][k] = TRUE]

NoEvent == [type |-> "none", old |-> NotFound, new |-> NotFound]

Start ==
    /\ vaQueue = NewQueue(VAKeys)
    /\ pvQueue = NewQueue(PVKeys)
    /\ vaCache = [k \in VAKeys |-> NotFound]
    /\ pvCache = [k \in PVKeys |-> NotFound]
    /\ synced = [kind \in Kinds |-> FALSE]
    /\ stopCh = FALSE
    /\ runPc = "waitsync"
    /\ syncResult = "pending"
    /\ workers = [kind \in Kinds |-> [top |-> 0, get |-> 0, exited |-> 0]]
    /\ busy = [w \in WorkItems |-> 0]
    /\ invoked = [kind \in Kinds |-> FALSE]
    /\ path = [kind \in Kinds |-> [k \in Keys(kind) |-> "none"]]
    /\ watched \in Kinds
    /\ lastEvent = NoEvent
    /\ backoff = NewBackoff

Init == Start /\ trace = NoTrace(FALSE)

InitTraced == Start /\ trace = NoTrace(TRUE)

\* ----------------------------------------------------------- change filter
\* Mutant: the copy keeps new's DetachError.
Sanitized_KeepsDetachError(old, new) ==
    [new EXCEPT !.resourceVersion = old.resourceVersion,
                !.attachError = old.attachError]

\* sanitized := new.DeepCopy() with old's ResourceVersion and errors.
Sanitized(old, new) ==
    [new EXCEPT !.resourceVersion = old.resourceVersion,
                !.attachError = old.attachError,
                !.detachError = old.detachError]

\* Mutant: no resourceVersion short-circuit.
shouldEnqueueVAChange_NoResync(old, new) ==
    IF /\ new.attachError = Nil /\ new.detachError = Nil
       /\ old.attachError = Nil /\ old.detachError = Nil THEN TRUE
    ELSE IF old = Sanitized(old, new) THEN FALSE
    ELSE TRUE

\* Mutant: any update that carries an error is taken for a status write.
shouldEnqueueVAChange_NoDeepEqual(old, new) ==
    IF old.resourceVersion = new.resourceVersion THEN TRUE
    ELSE IF /\ new.attachError = Nil /\ new.detachError = Nil
            /\ old.attachError = Nil /\ old.detachError = Nil THEN TRUE
    ELSE FALSE

\* Mutant: only new's error fields are tested before the comparison.
shouldEnqueueVAChange_OnlyNewErrors(old, new) ==
    IF old.resourceVersion = new.resourceVersion THEN TRUE
    ELSE IF new.attachError = Nil /\ new.detachError = Nil THEN TRUE
    ELSE IF old = Sanitized(old, new) THEN FALSE
    ELSE TRUE

shouldEnqueueVAChange(old, new) ==
    IF old.resourceVersion = new.resourceVersion THEN TRUE
    ELSE IF /\ new.attachError = Nil /\ new.detachError = Nil
            /\ old.attachError = Nil /\ old.detachError = Nil THEN TRUE
    ELSE IF old = Sanitized(old, new) THEN FALSE
    ELSE TRUE

\* ------------------------------------------------------ informer callbacks
vaAdded(va) ==
    /\ vaQueue' = QAdd(vaQueue, va.name)
    /\ UNCHANGED pvQueue

vaUpdated(old, new) ==
    /\ IF shouldEnqueueVAChange(old, new)
          THEN vaQueue' = QAdd(vaQueue, new.name)
          ELSE UNCHANGED vaQueue
    /\ UNCHANGED pvQueue

\* Mutant: the deleted attachment's own key is enqueued, as in vaAdded.
vaDeleted_OwnKey(va) ==
    /\ IF va # NilVA /\ va.pv # Nil
          THEN vaQueue' = QAdd(vaQueue, va.name)
          ELSE UNCHANGED vaQueue
    /\ UNCHANGED pvQueue

\* Mutant: without a target reference the attachment's own key is enqueued.
vaDeleted_FallsBackToOwnKey(va) ==
    IF va = NilVA THEN UNCHANGED <<vaQueue, pvQueue>>
    ELSE IF va.pv # Nil
            THEN pvQueue' = QAdd(pvQueue, va.pv) /\ UNCHANGED vaQueue
            ELSE vaQueue' = QAdd(vaQueue, va.name) /\ UNCHANGED pvQueue

\* if va != nil && va.Spec.Source.PersistentVolumeName != nil { pvQueue.Add(...) }
vaDeleted(va) ==
    /\ IF va # NilVA /\ va.pv # Nil
          THEN pvQueue' = QAdd(pvQueue, va.pv)
          ELSE UNCHANGED pvQueue
    /\ UNCHANGED vaQueue

pvAdded(pv) ==
    /\ pvQueue' = QAdd(pvQueue, pv.name)
    /\ UNCHANGED vaQueue

pvUpdated(old, new) ==
    /\ pvQueue' = QAdd(pvQueue, new.name)
    /\ UNCHANGED vaQueue

\* Mutant: a DeleteFunc that enqueues the volume is registered.
pvOnDelete_Registered(pv) ==
    /\ pvQueue' = QAdd(pvQueue, pv.name)
    /\ UNCHANGED vaQueue

\* ResourceEventHandlerFuncs{AddFunc, UpdateFunc} of the PersistentVolume
\* informer: DeleteFunc is not set, so a deletion calls nothing.
pvOnDelete(pv) == UNCHANGED <<vaQueue, pvQueue>>

\* ------------------------------------------------- the informers (external)
\* The shared informer stores the object and then calls the registered
\* callback.  An update either redelivers the stored object (resync) or
\* carries a new resourceVersion.
unchangedByInformer ==
    UNCHANGED <<stopCh, runPc, syncResult, workers, busy, invoked, path, watched,
                lastEvent, backoff>>

InformerVAAdd ==
    /\ watched = "va"
    /\    \E va \in CachedVAs :
        /\ vaCache[va.name] = NotFound
        /\ vaCache' = [vaCache EXCEPT ![va.name] = va]
        /\ vaAdded(va)
        /\ Traced(TraceAdd("va", va.name))
        /\ UNCHANGED <<pvCache, synced>>
        /\ unchangedByInformer

InformerVAUpdate ==
    /\ watched = "va"
    /\    \E new \in CachedVAs :
        LET old == vaCache[new.name]
        IN /\ old # NotFound
           /\ new = old \/ new.resourceVersion # old.resourceVersion
           /\ vaCache' = [vaCache EXCEPT ![new.name] = new]
           /\ vaUpdated(old, new)
           /\ Traced(IF shouldEnqueueVAChange(old, new) THEN TraceAdd("va", new.name)
                                                        ELSE trace)
           /\ UNCHANGED <<pvCache, synced>>
           /\ unchangedByInformer

InformerVADelete ==
    /\ watched = "va"
    /\    \E k \in VAKeys :
        /\ vaCache[k] # NotFound
        /\ vaCache' = [vaCache EXCEPT ![k] = NotFound]
        /\ vaDeleted(vaCache[k])
        /\ Traced(IF vaCache[k].pv # Nil THEN TraceAdd("pv", vaCache[k].pv) ELSE trace)
        /\ UNCHANGED <<pvCache, synced>>
        /\ unchangedByInformer

InformerPVAdd ==
    /\ watched = "pv"
    /\    \E pv \in PersistentVolumes :
        /\ pvCache[pv.name] = NotFound
        /\ pvCache' = [pvCache EXCEPT ![pv.name] = pv]
        /\ pvAdded(pv)
        /\ Traced(TraceAdd("pv", pv.name))
        /\ UNCHANGED <<vaCache, synced>>
        /\ unchangedByInformer

InformerPVUpdate ==
    /\ watched = "pv"
    /\    \E pv \in PersistentVolumes :
        /\ pvCache[pv.name] # NotFound
        /\ pvCache' = [pvCache EXCEPT ![pv.name] = pv]
        /\ pvUpdated(pvCache[pv.name], pv)
        /\ Traced(TraceAdd("pv", pv.name))
        /\ UNCHANGED <<vaCache, synced>>
        /\ unchangedByInformer

\* No DeleteFunc is registered for PersistentVolumes.
InformerPVDelete ==
    /\ watched = "pv"
    /\    \E k \in PVKeys :
        /\ pvCache[k] # NotFound
        /\ pvCache' = [pvCache EXCEPT ![k] = NotFound]
        /\ pvOnDelete(pvCache[k])
        /\ UNCHANGED <<vaCache, synced, trace>>
        /\ unchangedByInformer

InformerSynced ==
    \E kind \in Kinds :
        /\ ~synced[kind]
        /\ synced' = [synced EXCEPT ![kind] = TRUE]
        /\ UNCHANGED <<vaQueue, pvQueue, vaCache, pvCache, trace>>
        /\ unchangedByInformer

\* The caller closes stopCh.
Stop ==
    /\ ~stopCh
    /\ stopCh' = TRUE
    /\ UNCHANGED <<vaQueue, pvQueue, vaCache, pvCache, synced, runPc, syncResult,
                   workers, busy, invoked, path, watched, lastEvent, backoff, trace>>

\* --------------------------------------------------------------------- Run
unchangedByRun ==
    UNCHANGED <<vaCache, pvCache, synced, stopCh, busy, invoked, path, watched, lastEvent,
                backoff, trace>>

\* Mutant: the result of WaitForCacheSync is ignored.
RunWaitForCacheSync_IgnoresResult ==
    /\ runPc = "waitsync"
    /\ \/ /\ synced["va"] /\ synced["pv"]
          /\ syncResult' = "true"
       \/ /\ stopCh
          /\ syncResult' = "false"
    /\ runPc' = "startworkers"
    /\ UNCHANGED <<vaQueue, pvQueue, workers>>
    /\ unchangedByRun

\* cache.WaitForCacheSync(stopCh, vaListerSynced, pvListerSynced): true once
\* both informers have synced, false once stopCh is closed.  On false Run
\* returns, which runs its deferred calls.
RunWaitForCacheSync ==
    /\ runPc = "waitsync"
    /\ \/ /\ synced["va"] /\ synced["pv"]
          /\ syncResult' = "true"
          /\ runPc' = "startworkers"
       \/ /\ stopCh
          /\ syncResult' = "false"
          /\ runPc' = "shutdownPV"
    /\ UNCHANGED <<vaQueue, pvQueue, workers>>
    /\ unchangedByRun

\* for i < workers: go wait.Until(syncVA, 0, stopCh); go wait.Until(syncPV, 0, stopCh)
RunStartWorkers ==
    /\ runPc = "startworkers"
    /\ workers' = [kind \in Kinds |-> [workers[kind] EXCEPT !.top = Workers]]
    /\ runPc' = "blocked"
    /\ UNCHANGED <<vaQueue, pvQueue, syncResult>>
    /\ unchangedByRun

\* Mutant: Run does not wait for stopCh.
RunStopped_NoWait ==
    /\ runPc = "blocked"
    /\ runPc' = "shutdownPV"
    /\ UNCHANGED <<vaQueue, pvQueue, syncResult, workers>>
    /\ unchangedByRun

\* <-stopCh
RunStopped ==
    /\ runPc = "blocked"
    /\ stopCh
    /\ runPc' = "shutdownPV"
    /\ UNCHANGED <<vaQueue, pvQueue, syncResult, workers>>
    /\ unchangedByRun

\* Mutant: pvQueue.ShutDown() is not deferred.
RunShutDownPV_Skipped ==
    /\ runPc = "shutdownPV"
    /\ runPc' = "shutdownVA"
    /\ UNCHANGED <<vaQueue, pvQueue, syncResult, workers>>
    /\ unchangedByRun

\* The deferred calls run last-deferred first: pvQueue.ShutDown(), then
\* vaQueue.ShutDown().
RunShutDownPV ==
    /\ runPc = "shutdownPV"
    /\ pvQueue' = QShutDown(pvQueue)
    /\ runPc' = "shutdownVA"
    /\ UNCHANGED <<vaQueue, syncResult, workers>>
    /\ unchangedByRun

RunShutDownVA ==
    /\ runPc = "shutdownVA"
    /\ vaQueue' = QShutDown(vaQueue)
    /\ runPc' = "returned"
    /\ UNCHANGED <<pvQueue, syncResult, workers>>
    /\ unchangedByRun

\* ----------------------------------------------------------------- workers
unchangedByWorker ==
    UNCHANGED <<vaCache, pvCache, synced, stopCh, runPc, syncResult, watched, lastEvent,
                backoff>>

Move(from, to) == [busy EXCEPT ![from] = @ - 1, ![to] = @ + 1]

\* wait.Until: leave the loop once stopCh is closed, otherwise call f.
LoopTop(kind) ==
    /\ workers[kind].top > 0
    /\ IF stopCh
          THEN workers' = [workers EXCEPT ![kind].top = @ - 1, ![kind].exited = @ + 1]
          ELSE workers' = [workers EXCEPT ![kind].top = @ - 1, ![kind].get = @ + 1]
    /\ UNCHANGED <<vaQueue, pvQueue, busy, invoked, path, trace>>
    /\ unchangedByWorker

\* Mutant: queue.Done(key) is called at once instead of being deferred.
Get_DoneNotDeferred(kind) ==
    /\ workers[kind].get > 0
    /\ QGetReady(Q(kind))
    /\ IF QGetQuit(Q(kind))
          THEN /\ workers' = [workers EXCEPT ![kind].get = @ - 1, ![kind].top = @ + 1]
               /\ UNCHANGED <<vaQueue, pvQueue, busy>>
          ELSE /\ workers' = [workers EXCEPT ![kind].get = @ - 1]
               /\ busy' = [busy EXCEPT ![<<kind, QGetKey(Q(kind)), "lookup">>] = @ + 1]
               /\ SetQ(kind, QDone(QGet(Q(kind)), QGetKey(Q(kind))))
    /\ Traced(IF QGetQuit(Q(kind)) THEN trace
               ELSE [trace EXCEPT !.legit[kind][QGetKey(Q(kind))] = FALSE,
                                  !.backoffAdd[kind][QGetKey(Q(kind))] = FALSE])
    /\ UNCHANGED <<invoked, path>>
    /\ unchangedByWorker

\* key, quit := queue.Get(); if quit { return }
Get(kind) ==
    /\ workers[kind].get > 0
    /\ QGetReady(Q(kind))
    /\ IF QGetQuit(Q(kind))
          THEN /\ workers' = [workers EXCEPT ![kind].get = @ - 1, ![kind].top = @ + 1]
               /\ UNCHANGED <<vaQueue, pvQueue, busy>>
          ELSE /\ workers' = [workers EXCEPT ![kind].get = @ - 1]
               /\ busy' = [busy EXCEPT ![<<kind, QGetKey(Q(kind)), "lookup">>] = @ + 1]
               /\ SetQ(kind, QGet(Q(kind)))
    /\ Traced(IF QGetQuit(Q(kind)) THEN trace
               ELSE [trace EXCEPT !.legit[kind][QGetKey(Q(kind))] = FALSE,
                                  !.backoffAdd[kind][QGetKey(Q(kind))] = FALSE])
    /\ UNCHANGED <<invoked, path>>
    /\ unchangedByWorker

\* Mutant: the attacher of the attachment is not compared with attacherName.
syncVA_NoAttacherCheck(k) ==
    /\ busy[<<"va", k, "lookup">>] > 0
    /\ \/ /\ vaCache[k] = NotFound
          /\ busy' = Move(<<"va", k, "lookup">>, <<"va", k, "done">>)
          /\ path' = [path EXCEPT !["va"][k] = "notfound"]
          /\ UNCHANGED invoked
       \/ /\ vaQueue.failures[k] < MaxFailures
          /\ busy' = Move(<<"va", k, "lookup">>, <<"va", k, "requeue">>)
          /\ path' = [path EXCEPT !["va"][k] = "error"]
          /\ UNCHANGED invoked
       \/ /\ vaCache[k] # NotFound
          /\ busy' = Move(<<"va", k, "lookup">>, <<"va", k, "handler">>)
          /\ path' = [path EXCEPT !["va"][k] = "handler"]
          /\ invoked' = [invoked EXCEPT !["va"] = TRUE]
    /\ UNCHANGED <<vaQueue, pvQueue, workers, trace>>
    /\ unchangedByWorker

\* Mutant: Done is called at the end of syncVA instead of being deferred, so
\* the early return of the not-found case skips it.
syncVA_DoneAtEnd(k) ==
    /\ busy[<<"va", k, "lookup">>] > 0
    /\ \/ /\ vaCache[k] = NotFound
          /\ busy' = [busy EXCEPT ![<<"va", k, "lookup">>] = @ - 1]
          /\ workers' = [workers EXCEPT !["va"].top = @ + 1]
          /\ UNCHANGED <<invoked, path>>
       \/ /\ vaQueue.failures[k] < MaxFailures
          /\ busy' = Move(<<"va", k, "lookup">>, <<"va", k, "requeue">>)
          /\ path' = [path EXCEPT !["va"][k] = "error"]
          /\ UNCHANGED <<invoked, workers>>
       \/ /\ vaCache[k] # NotFound
          /\ vaCache[k].attacher # attacherName
          /\ busy' = Move(<<"va", k, "lookup">>, <<"va", k, "done">>)
          /\ path' = [path EXCEPT !["va"][k] = "skipped"]
          /\ UNCHANGED <<invoked, workers>>
       \/ /\ vaCache[k] # NotFound
          /\ vaCache[k].attacher = attacherName
          /\ busy' = Move(<<"va", k, "lookup">>, <<"va", k, "handler">>)
          /\ path' = [path EXCEPT !["va"][k] = "handler"]
          /\ invoked' = [invoked EXCEPT !["va"] = TRUE]
          /\ UNCHANGED workers
    /\ UNCHANGED <<vaQueue, pvQueue, trace>>
    /\ unchangedByWorker

\* va, err := vaLister.Get(vaName) and what syncVA does with the answer: the
\* lookup fails with not-found, fails with another error, or returns the
\* cached object, of another attacher or of this one.
syncVA(k) ==
    /\ busy[<<"va", k, "lookup">>] > 0
    /\ \/ /\ vaCache[k] = NotFound
          /\ busy' = Move(<<"va", k, "lookup">>, <<"va", k, "done">>)
          /\ path' = [path EXCEPT !["va"][k] = "notfound"]
          /\ UNCHANGED invoked
       \/ /\ vaQueue.failures[k] < MaxFailures
          /\ busy' = Move(<<"va", k, "lookup">>, <<"va", k, "requeue">>)
          /\ path' = [path EXCEPT !["va"][k] = "error"]
          /\ UNCHANGED invoked
       \/ /\ vaCache[k] # NotFound
          /\ vaCache[k].attacher # attacherName
          /\ busy' = Move(<<"va", k, "lookup">>, <<"va", k, "done">>)
          /\ path' = [path EXCEPT !["va"][k] = "skipped"]
          /\ UNCHANGED invoked
       \/ /\ vaCache[k] # NotFound
          /\ vaCache[k].attacher = attacherName
          /\ busy' = Move(<<"va", k, "lookup">>, <<"va", k, "handler">>)
          /\ path' = [path EXCEPT !["va"][k] = "handler"]
          /\ invoked' = [invoked EXCEPT !["va"] = TRUE]
    /\ UNCHANGED <<vaQueue, pvQueue, workers, trace>>
    /\ unchangedByWorker

\* Mutant: not-found is handled like any other lookup error.
syncPV_NotFoundRetried(k) ==
    /\ busy[<<"pv", k, "lookup">>] > 0
    /\ \/ /\ pvCache[k] = NotFound
          /\ busy' = Move(<<"pv", k, "lookup">>, <<"pv", k, "requeue">>)
          /\ path' = [path EXCEPT !["pv"][k] = "notfound"]
          /\ UNCHANGED invoked
       \/ /\ pvQueue.failures[k] < MaxFailures
          /\ busy' = Move(<<"pv", k, "lookup">>, <<"pv", k, "requeue">>)
          /\ path' = [path EXCEPT !["pv"][k] = "error"]
          /\ UNCHANGED invoked
       \/ /\ pvCache[k] # NotFound
          /\ busy' = Move(<<"pv", k, "lookup">>, <<"pv", k, "handler">>)
          /\ path' = [path EXCEPT !["pv"][k] = "handler"]
          /\ invoked' = [invoked EXCEPT !["pv"] = TRUE]
    /\ UNCHANGED <<vaQueue, pvQueue, workers, trace>>
    /\ unchangedByWorker

\* pv, err := pvLister.Get(pvName) and what syncPV does with the answer.
syncPV(k) ==
    /\ busy[<<"pv", k, "lookup">>] > 0
    /\ \/ /\ pvCache[k] = NotFound
          /\ busy' = Move(<<"pv", k, "lookup">>, <<"pv", k, "done">>)
          /\ path' = [path EXCEPT !["pv"][k] = "notfound"]
          /\ UNCHANGED invoked
       \/ /\ pvQueue.failures[k] < MaxFailures
          /\ busy' = Move(<<"pv", k, "lookup">>, <<"pv", k, "requeue">>)
          /\ path' = [path EXCEPT !["pv"][k] = "error"]
          /\ UNCHANGED invoked
       \/ /\ pvCache[k] # NotFound
          /\ busy' = Move(<<"pv", k, "lookup">>, <<"pv", k, "handler">>)
          /\ path' = [path EXCEPT !["pv"][k] = "handler"]
          /\ invoked' = [invoked EXCEPT !["pv"] = TRUE]
    /\ UNCHANGED <<vaQueue, pvQueue, workers, trace>>
    /\ unchangedByWorker

\* Mutant: the key is put back with Add, without backoff.
Requeue_PlainAdd(kind, k) ==
    /\ busy[<<kind, k, "requeue">>] > 0
    /\ SetQ(kind, QAdd(Q(kind), k))
    /\ busy' = Move(<<kind, k, "requeue">>, <<kind, k, "done">>)
    /\ UNCHANGED <<workers, invoked, path, trace>>
    /\ unchangedByWorker

\* The lookup failed with an error other than not-found: queue.AddRateLimited(key).
Requeue(kind, k) ==
    /\ busy[<<kind, k, "requeue">>] > 0
    /\ SetQ(kind, QAddRateLimited(Q(kind), k))
    /\ busy' = Move(<<kind, k, "requeue">>, <<kind, k, "done">>)
    /\ UNCHANGED <<workers, invoked, path, trace>>
    /\ unchangedByWorker

\* Mutant: the worker calls Forget(key) once the Handler has returned.
HandlerReturn_Forgets(kind, k) ==
    /\ busy[<<kind, k, "handler">>] > 0
    /\ SetQ(kind, QForget(Q(kind), k))
    /\ busy' = Move(<<kind, k, "handler">>, <<kind, k, "done">>)
    /\ UNCHANGED <<workers, invoked, path, trace>>
    /\ unchangedByWorker

\* handler.SyncNewOrUpdated...(obj) returns.
HandlerReturn(kind, k) ==
    /\ busy[<<kind, k, "handler">>] > 0
    /\ busy' = Move(<<kind, k, "handler">>, <<kind, k, "done">>)
    /\ UNCHANGED <<vaQueue, pvQueue, workers, invoked, path, trace>>
    /\ unchangedByWorker

\* Mutant: the worker returns without calling queue.Done(key).
Done_NotCalled(kind, k) ==
    /\ busy[<<kind, k, "done">>] > 0
    /\ busy' = [busy EXCEPT ![<<kind, k, "done">>] = @ - 1]
    /\ workers' = [workers EXCEPT ![kind].top = @ + 1]
    /\ path' = [path EXCEPT ![kind][k] = "none"]
    /\ Traced([trace EXCEPT !.prev[kind][k] = path[kind][k]])
    /\ UNCHANGED <<vaQueue, pvQueue, invoked>>
    /\ unchangedByWorker

\* Mutant: the sync function is started once (go f()) instead of in wait.Until.
Done_NoLoop(kind, k) ==
    /\ busy[<<kind, k, "done">>] > 0
    /\ SetQ(kind, QDone(Q(kind), k))
    /\ busy' = [busy EXCEPT ![<<kind, k, "done">>] = @ - 1]
    /\ workers' = [workers EXCEPT ![kind].exited = @ + 1]
    /\ path' = [path EXCEPT ![kind][k] = "none"]
    /\ Traced([trace EXCEPT !.prev[kind][k] = path[kind][k]])
    /\ UNCHANGED invoked
    /\ unchangedByWorker

\* defer queue.Done(key), and back to wait.Until.
Done(kind, k) ==
    /\ busy[<<kind, k, "done">>] > 0
    /\ SetQ(kind, QDone(Q(kind), k))
    /\ busy' = [busy EXCEPT ![<<kind, k, "done">>] = @ - 1]
    /\ workers' = [workers EXCEPT ![kind].top = @ + 1]
    /\ path' = [path EXCEPT ![kind][k] = "none"]
    /\ Traced([trace EXCEPT !.prev[kind][k] = path[kind][k]])
    /\ UNCHANGED invoked
    /\ unchangedByWorker

\* ------------------------------------------------------ Handler (external)
\* A running Handler call re-queues or forgets its object through the queue
\* it was given at Init.
HandlerQueueCall(kind, k) ==
    /\ busy[<<kind, k, "handler">>] > 0
    /\ \/ /\ SetQ(kind, QAdd(Q(kind), k))
          /\ Traced(TraceAdd(kind, k))
       \/ /\ Q(kind).failures[k] < MaxFailures
          /\ SetQ(kind, QAddRateLimited(Q(kind), k))
          /\ Traced(IF Q(kind).shuttingDown THEN trace
                     ELSE [trace EXCEPT !.byHandler[kind][k] = TRUE])
       \/ /\ SetQ(kind, QForget(Q(kind), k))
          /\ UNCHANGED trace
    /\ UNCHANGED <<workers, busy, invoked, path>>
    /\ unchangedByWorker

\* The delaying queue's timer for a parked key.
Timer(kind, k) ==
    /\ k \in Q(kind).waiting
    /\ ~Q(kind).shuttingDown
    /\ SetQ(kind, QTimer(Q(kind), k))
    /\ Traced(IF trace.byHandler[kind][k]
                 THEN [trace EXCEPT !.byHandler[kind][k] = FALSE, !.legit[kind][k] = TRUE]
                 ELSE [trace EXCEPT !.backoffAdd[kind][k] = TRUE])
    /\ UNCHANGED <<workers, busy, invoked, path>>
    /\ unchangedByWorker

\* ------------------------------------------------------------------- Spec
Next ==
    \/ InformerVAAdd
    \/ InformerVAUpdate
    \/ InformerVADelete
    \/ InformerPVAdd
    \/ InformerPVUpdate
    \/ InformerPVDelete
    \/ InformerSynced
    \/ Stop
    \/ RunWaitForCacheSync
    \/ RunStartWorkers
    \/ RunStopped
    \/ RunShutDownPV
    \/ RunShutDownVA
    \/ \E kind \in Kinds : LoopTop(kind)
    \/ \E kind \in Kinds : Get(kind)
    \/ \E k \in VAKeys : syncVA(k)
    \/ \E k \in PVKeys : syncPV(k)
    \/ \E kind \in Kinds : \E k \in Keys(kind) : Requeue(kind, k)
    \/ \E kind \in Kinds : \E k \in Keys(kind) : HandlerReturn(kind, k)
    \/ \E kind \in Kinds : \E k \in Keys(kind) : Done(kind, k)
    \/ \E kind \in Kinds : \E k \in Keys(kind) : HandlerQueueCall(kind, k)
    \/ \E kind \in Kinds : \E k \in Keys(kind) : Timer(kind, k)

Spec == Init /\ [][Next]_vars

\* Every goroutine of the controller that can take a step eventually takes
\* one (Run, the worker loops, a Handler call returns), and the informers
\* finish their initial list.  Nothing is assumed of the objects' changes, of
\* stopCh, of the Handler's queue calls or of the timers.
Fairness ==
    /\ WF_vars(RunWaitForCacheSync)
    /\ WF_vars(RunStartWorkers)
    /\ WF_vars(RunStopped)
    /\ WF_vars(RunShutDownPV)
    /\ WF_vars(RunShutDownVA)
    /\ WF_vars(InformerSynced)
    /\ \A kind \in Kinds : WF_vars(LoopTop(kind)) /\ WF_vars(Get(kind))
    /\ \A k \in VAKeys : WF_vars(syncVA(k))
    /\ \A k \in PVKeys : WF_vars(syncPV(k))
    /\ \A kind \in Kinds : \A k \in Keys(kind) :
           /\ WF_vars(Requeue(kind, k))
           /\ WF_vars(HandlerReturn(kind, k))
           /\ WF_vars(Done(kind, k))

FairSpec == Spec /\ Fairness

\* In addition the delaying queue's timers fire: a parked key's delay elapses.
RetryFairSpec ==
    FairSpec /\ \A kind \in Kinds : \A k \in Keys(kind) : WF_vars(Timer(kind, k))

\* The same runs with the history of the Adds written down.
SpecTraced == InitTraced /\ [][Next]_vars

\* ------------------------------------------------- notification-only runs
\* The callbacks on arbitrary objects, before Run is called: each step is one
\* callback, recorded in lastEvent.
unchangedByNotify ==
    UNCHANGED <<vaCache, pvCache, synced, stopCh, runPc, syncResult, workers, busy,
                invoked, path, watched, backoff, trace>>

NotifyVAAdded ==
    \E va \in VolumeAttachments :
        /\ vaAdded(va)
        /\ lastEvent' = [type |-> "vaAdded", old |-> va, new |-> va]
        /\ unchangedByNotify

NotifyVAUpdated ==
    \E old \in VolumeAttachments, new \in VolumeAttachments :
        /\ old.name = new.name
        /\ vaUpdated(old, new)
        /\ lastEvent' = [type |-> "vaUpdated", old |-> old, new |-> new]
        /\ unchangedByNotify

NotifyVADeleted ==
    \E va \in VolumeAttachments \cup {NilVA} :
        /\ vaDeleted(va)
        /\ lastEvent' = [type |-> "vaDeleted", old |-> va, new |-> va]
        /\ unchangedByNotify

NotifyPVAdded ==
    \E pv \in PVObjects :
        /\ pvAdded(pv)
        /\ lastEvent' = [type |-> "pvAdded", old |-> pv, new |-> pv]
        /\ unchangedByNotify

NotifyPVUpdated ==
    \E old \in PVObjects, new \in PVObjects :
        /\ old.name = new.name
        /\ pvUpdated(old, new)
        /\ lastEvent' = [type |-> "pvUpdated", old |-> old, new |-> new]
        /\ unchangedByNotify

NotifyPVDeleted ==
    \E pv \in PVObjects :
        /\ pvOnDelete(pv)
        /\ lastEvent' = [type |-> "pvDeleted", old |-> pv, new |-> pv]
        /\ unchangedByNotify

NotifyNext ==
    \/ NotifyVAAdded
    \/ NotifyVAUpdated
    \/ NotifyVADeleted
    \/ NotifyPVAdded
    \/ NotifyPVUpdated
    \/ NotifyPVDeleted

SpecNotify == Init /\ [][NotifyNext]_vars

\* ------------------------------------------------------------ backoff runs
\* AddRateLimited and Forget on the keys of one rate limiter, in any order.
unchangedByBackoff ==
    UNCHANGED <<vaQueue, pvQueue, vaCache, pvCache, synced, stopCh, runPc, syncResult,
                workers, busy, invoked, path, watched, lastEvent, trace>>

BackoffAddRateLimited ==
    \E k \in BackoffKeys :
        /\ backoff.streak[k] < MaxRetries
        /\ backoff' = [backoff EXCEPT
               !.delay[k] = RateLimiterWhen(backoff.limiter, backoff.failures, k),
               !.failures = RateLimiterFailed(@, k),
               !.streak[k] = @ + 1]
        /\ unchangedByBackoff

BackoffForget ==
    \E k \in BackoffKeys :
        /\ backoff' = [backoff EXCEPT
               !.failures = RateLimiterForget(@, k),
               !.streak[k] = 0]
        /\ unchangedByBackoff

BackoffNext ==
    \/ BackoffAddRateLimited
    \/ BackoffForget

SpecBackoff == Init /\ [][BackoffNext]_vars

\* ------------------------------------------------------------------ claims
SameButVersionAndErrors(old, new) ==
    /\ old.name = new.name
    /\ old.attacher = new.attacher
    /\ old.pv = new.pv

ErrorsDiffer(old, new) ==
    \/ old.attachError # new.attachError
    \/ old.detachError # new.detachError

Pending(q, k) == k \in q.dirty /\ InQueue(q, k)

\* C2: an update whose resourceVersion changed and whose only other
\* difference is in the attach-error / detach-error fields leaves the
\* attachment queue (and the target queue) as it was: vaUpdated calls no Add.
C2_StatusOnlyUpdateNotEnqueued ==
    [][(/\ lastEvent'.type = "vaUpdated"
        /\ lastEvent'.old.resourceVersion # lastEvent'.new.resourceVersion
        /\ SameButVersionAndErrors(lastEvent'.old, lastEvent'.new)
        /\ ErrorsDiffer(lastEvent'.old, lastEvent'.new))
       => (vaQueue' = vaQueue /\ pvQueue' = pvQueue)]_vars

\* Such an update was delivered (an attach error was replaced and a detach
\* error cleared) and the key is in no queue.
C2_Witness ==
    /\ lastEvent.type = "vaUpdated"
    /\ lastEvent.old.resourceVersion # lastEvent.new.resourceVersion
    /\ SameButVersionAndErrors(lastEvent.old, lastEvent.new)
    /\ lastEvent.old.attachError = "e1" /\ lastEvent.new.attachError = "e2"
    /\ lastEvent.old.detachError = "e1" /\ lastEvent.new.detachError = Nil
    /\ vaQueue = NewQueue(VAKeys)

\* C3: an update with old.resourceVersion = new.resourceVersion calls
\* vaQueue.Add(key), whatever the error fields (and the other fields) hold,
\* and the key is pending afterwards.
C3_SameVersionEnqueued ==
    [][(/\ lastEvent'.type = "vaUpdated"
        /\ lastEvent'.old.resourceVersion = lastEvent'.new.resourceVersion)
       => (/\ vaQueue' = QAdd(vaQueue, lastEvent'.new.name)
           /\ Pending(vaQueue', lastEvent'.new.name))]_vars

\* A same-version update that differs only in its errors was delivered first
\* and its key is pending, added once.
C3_Witness ==
    /\ lastEvent.type = "vaUpdated"
    /\ lastEvent.old.resourceVersion = lastEvent.new.resourceVersion
    /\ SameButVersionAndErrors(lastEvent.old, lastEvent.new)
    /\ lastEvent.old.attachError = Nil /\ lastEvent.new.attachError = "e1"
    /\ Pending(vaQueue, lastEvent.new.name)
    /\ vaQueue.adds[lastEvent.new.name] = "once"

\* C4: an update whose resourceVersion changed and in which a field other
\* than resourceVersion, attachError and detachError differs calls
\* vaQueue.Add(key), also when an error changed in the same update.
C4_OtherFieldChangeEnqueued ==
    [][(/\ lastEvent'.type = "vaUpdated"
        /\ lastEvent'.old.resourceVersion # lastEvent'.new.resourceVersion
        /\ ~SameButVersionAndErrors(lastEvent'.old, lastEvent'.new))
       => (/\ vaQueue' = QAdd(vaQueue, lastEvent'.new.name)
           /\ Pending(vaQueue', lastEvent'.new.name))]_vars

\* The target reference and the attach error changed in one update, which was
\* the first to add the key.
C4_Witness ==
    /\ lastEvent.type = "vaUpdated"
    /\ lastEvent.old.resourceVersion # lastEvent.new.resourceVersion
    /\ lastEvent.old.pv # lastEvent.new.pv
    /\ lastEvent.old.attachError = Nil /\ lastEvent.new.attachError = "e1"
    /\ Pending(vaQueue, lastEvent.new.name)
    /\ vaQueue.adds[lastEvent.new.name] = "once"

\* C11: a delete notification for an attachment that references target T
\* calls pvQueue.Add(T), so T is pending in the target queue, and leaves the
\* attachment queue as it was: the attachment's own key is enqueued nowhere.
C11_DeleteEnqueuesTarget ==
    [][(/\ lastEvent'.type = "vaDeleted"
        /\ lastEvent'.new # NilVA
        /\ lastEvent'.new.pv # Nil)
       => (/\ pvQueue' = QAdd(pvQueue, lastEvent'.new.pv)
           /\ Pending(pvQueue', lastEvent'.new.pv)
           /\ ~InQueue(pvQueue', lastEvent'.new.name)
           /\ vaQueue' = vaQueue)]_vars

\* The first notification was the deletion of an attachment of pv1: pv1 is
\* pending, added once, and the attachment queue is as constructed.
C11_Witness ==
    /\ lastEvent.type = "vaDeleted"
    /\ lastEvent.new # NilVA
    /\ lastEvent.new.pv = "pv1"
    /\ pvQueue.queue = <<"pv1">>
    /\ pvQueue.adds["pv1"] = "once"
    /\ vaQueue = NewQueue(VAKeys)

\* C19: a delete notification whose attachment carries no target reference
\* (or no attachment at all) changes neither queue: no key is added for that
\* deletion.
C19_DeleteWithoutTargetLost ==
    [][(/\ lastEvent'.type = "vaDeleted"
        /\ (lastEvent'.new = NilVA \/ lastEvent'.new.pv = Nil))
       => (vaQueue' = vaQueue /\ pvQueue' = pvQueue)]_vars

\* The first notification was the deletion of an attachment without a target
\* reference and both queues are still as constructed.
C19_Witness ==
    /\ lastEvent.type = "vaDeleted"
    /\ lastEvent.new # NilVA
    /\ lastEvent.new.pv = Nil
    /\ vaQueue = NewQueue(VAKeys)
    /\ pvQueue = NewQueue(PVKeys)

\* C20: a delete notification for a PersistentVolume changes neither queue
\* (no DeleteFunc is registered), while an add and every update of a
\* PersistentVolume, with the same resourceVersion or another, calls
\* pvQueue.Add(name) and leaves the attachment queue alone.
C20_TargetDeleteIgnored ==
    [][/\ lastEvent'.type = "pvDeleted"
            => (vaQueue' = vaQueue /\ pvQueue' = pvQueue)
       /\ lastEvent'.type \in {"pvAdded", "pvUpdated"}
            => (/\ pvQueue' = QAdd(pvQueue, lastEvent'.new.name)
                /\ Pending(pvQueue', lastEvent'.new.name)
                /\ vaQueue' = vaQueue)]_vars

\* pv1 was deleted before any other notification: both queues are still as
\* constructed.
C20_Witness ==
    /\ lastEvent.type = "pvDeleted"
    /\ lastEvent.new.name = "pv1"
    /\ pvQueue = NewQueue(PVKeys)
    /\ vaQueue = NewQueue(VAKeys)

AnyErrorSet(old, new) ==
    \/ old.attachError # Nil \/ old.detachError # Nil
    \/ new.attachError # Nil \/ new.detachError # Nil

\* The decision table of the change filter: do not enqueue exactly when the
\* resourceVersion differs, one of the four error fields is set and the two
\* objects agree on every other field.
DoNotEnqueue(old, new) ==
    /\ old.resourceVersion # new.resourceVersion
    /\ AnyErrorSet(old, new)
    /\ SameButVersionAndErrors(old, new)

\* C14: for every pair (old, new) the update callback follows the decision
\* table: the queues are left alone when DoNotEnqueue holds, and in every
\* other case vaQueue.Add(key) is called, in particular when the
\* resourceVersion differs and no error field is set, even if nothing else
\* differs.
C14_DecisionTable ==
    [][lastEvent'.type = "vaUpdated" =>
          /\ shouldEnqueueVAChange(lastEvent'.old, lastEvent'.new)
                = ~DoNotEnqueue(lastEvent'.old, lastEvent'.new)
          /\ IF DoNotEnqueue(lastEvent'.old, lastEvent'.new)
                THEN vaQueue' = vaQueue /\ pvQueue' = pvQueue
                ELSE /\ vaQueue' = QAdd(vaQueue, lastEvent'.new.name)
                     /\ Pending(vaQueue', lastEvent'.new.name)
                     /\ pvQueue' = pvQueue]_vars

\* An update was delivered to the queues as constructed and added no key: it
\* cleared the attach error and changed nothing else but the
\* resourceVersion, so only old carries an error.
C14_Witness ==
    /\ lastEvent.type = "vaUpdated"
    /\ lastEvent.old.resourceVersion # lastEvent.new.resourceVersion
    /\ lastEvent.old.attachError = "e1" /\ lastEvent.old.detachError = Nil
    /\ lastEvent.new.attachError = Nil /\ lastEvent.new.detachError = Nil
    /\ SameButVersionAndErrors(lastEvent.old, lastEvent.new)
    /\ vaQueue = NewQueue(VAKeys)
    /\ pvQueue = NewQueue(PVKeys)

\* The N-th delay of the claim, in seconds: min(1s * 2^(N-1), 5m).
NthDelay(n) == IF 2 ^ (n - 1) > 300 THEN 300 ELSE 2 ^ (n - 1)

\* C13: with the limiter of 1s and 5m, the delay of the N-th consecutive
\* AddRateLimited(K) is min(1s * 2^(N-1), 5m); the delay the next call will
\* get depends on K's own run of calls only, whatever was counted for the
\* other key, and is 1s again after Forget(K).
C13_ExponentialBackoff ==
    \A k \in BackoffKeys :
        /\ backoff.streak[k] >= 1 => backoff.delay[k] = NthDelay(backoff.streak[k])
        /\ RateLimiterWhen(backoff.limiter, backoff.failures, k)
               = NthDelay(backoff.streak[k] + 1)
        /\ backoff.streak[k] = 0
               => RateLimiterWhen(backoff.limiter, backoff.failures, k) = 1

\* k1 has reached the cap with its 10th call, while the counter of k2 stands
\* at its first failure and its delay at the minimum.
C13_Witness ==
    /\ backoff.streak["k1"] = 10
    /\ backoff.delay["k1"] = 300
    /\ backoff.streak["k2"] = 1
    /\ backoff.delay["k2"] = 1

\* ------------------------------------------------ claims about the workers
InFlight(kind, k) ==
    busy[<<kind, k, "lookup">>] + busy[<<kind, k, "requeue">>]
        + busy[<<kind, k, "handler">>] + busy[<<kind, k, "done">>]

Started(kind) ==
    workers[kind].top + workers[kind].get + workers[kind].exited
        + Cardinality({w \in WorkItems : w[1] = kind /\ busy[w] > 0})

\* C1: for each queue and every key, at most one worker is between Get
\* returning the key and Done(key), so the Handler's sync for a key never
\* runs in two workers at once.
C1_OneWorkerPerKey ==
    \A kind \in Kinds : \A k \in Keys(kind) :
        /\ InFlight(kind, k) <= 1
        /\ busy[<<kind, k, "handler">>] <= 1

\* A Handler call for va1 is running, va1 was added again more than once
\* meanwhile, and another worker waits in Get.
C1_Witness ==
    /\ busy[<<"va", "va1", "handler">>] = 1
    /\ vaQueue.adds["va1"] = "repeated"
    /\ workers["va"].get >= 1

\* C5: each queue holds at most one pending entry per key, repeated Add(K)
\* calls while K is pending keep it there once, and the Get that hands K out
\* leaves no pending entry of K behind: one dispatch for all those calls.
C5_Coalescing ==
    /\ [](\A kind \in Kinds : \A k \in Keys(kind) :
            /\ Count(Q(kind), k) <= 1
            /\ InQueue(Q(kind), k) => k \in Q(kind).dirty
            /\ (Q(kind).adds[k] # "none" /\ k \notin Q(kind).processing)
                   => Count(Q(kind), k) = 1)
    /\ [][\A kind \in Kinds : \A k \in Keys(kind) :
            busy'[<<kind, k, "lookup">>] > busy[<<kind, k, "lookup">>]
                => (~InQueue(Q(kind)', k) /\ k \notin Q(kind)'.dirty)]_vars

\* pv1 was added more than once while pending, is queued once, and a worker
\* is waiting to take it.
C5_Witness ==
    /\ pvQueue.adds["pv1"] = "repeated"
    /\ pvQueue.queue = <<"pv1">>
    /\ "pv1" \notin pvQueue.processing
    /\ workers["pv"].get >= 1

\* C6: a key added again while a worker processes it is handed to no worker
\* before Done(key): it is kept in the dirty set, outside the queue; Done then
\* makes it pending exactly once, however many Adds arrived.
C6_ReAddDeferred ==
    /\ [](\A kind \in Kinds : \A k \in Keys(kind) :
            /\ InFlight(kind, k) > 0 => ~InQueue(Q(kind), k)
            /\ (k \in Q(kind).processing /\ Q(kind).adds[k] # "none")
                   => k \in Q(kind).dirty)
    /\ [][\A kind \in Kinds : \A k \in Keys(kind) :
            (/\ busy'[<<kind, k, "done">>] < busy[<<kind, k, "done">>]
             /\ Q(kind).adds[k] # "none")
                => (/\ Count(Q(kind)', k) = 1
                    /\ k \in Q(kind)'.dirty
                    /\ k \notin Q(kind)'.processing)]_vars

\* va1 was added more than once during its Handler call; the call has
\* returned and the worker is about to call Done.
C6_Witness ==
    /\ busy[<<"va", "va1", "done">>] = 1
    /\ vaQueue.adds["va1"] = "repeated"
    /\ "va1" \in vaQueue.processing
    /\ invoked["va"]

\* C8: no worker exists, no key is handed out and no Handler sync is called
\* before WaitForCacheSync has returned true; until then the callbacks only
\* add keys to the queues.
C8_NoWorkBeforeSync ==
    syncResult # "true" =>
        \A kind \in Kinds :
            /\ Started(kind) = 0
            /\ ~invoked[kind]
            /\ Q(kind).processing = {}

\* Before the caches have synced a key is pending and nothing has run.
C8_Witness ==
    /\ syncResult = "pending"
    /\ ~synced["pv"]
    /\ Pending(vaQueue, "va1")
    /\ Started("va") = 0

\* C9: when WaitForCacheSync returns false no worker is started and no
\* Handler sync is called, whatever is pending, and both queues are shut down
\* once Run has returned.
C9_SyncFailure ==
    syncResult = "false" =>
        /\ \A kind \in Kinds :
              /\ Started(kind) = 0
              /\ ~invoked[kind]
              /\ Q(kind).processing = {}
        /\ runPc \in {"shutdownPV", "shutdownVA", "returned"}
        /\ runPc \in {"shutdownVA", "returned"} => pvQueue.shuttingDown
        /\ runPc = "returned" => vaQueue.shuttingDown

\* Run has returned after a failed sync, with a key still pending.
C9_Witness ==
    /\ syncResult = "false"
    /\ runPc = "returned"
    /\ Pending(pvQueue, "pv1")
    /\ vaQueue.shuttingDown /\ pvQueue.shuttingDown

\* ------------------------------------------- claims about one iteration
At(kind, k, pc) == busy[<<kind, k, pc>>]
OtherKind(kind) == IF kind = "va" THEN "pv" ELSE "va"

\* C12: a key that Get has handed out stays in the processing set until the
\* worker's iteration ends, and the iteration ends, on every path, in the one
\* step that calls Done(key) and returns to the loop; nothing else takes a key
\* out of the processing set, so Done is called once per hand-out.  On the
\* lookup-error path AddRateLimited has been called by then.  A Get that
\* reports shutdown hands out nothing and leaves the queue alone: no Done.
C12_DoneExactlyOnce ==
    /\ [](\A kind \in Kinds : \A k \in Keys(kind) :
            /\ k \in Q(kind).processing <=> InFlight(kind, k) = 1
            /\ path[kind][k] # "none" <=>
                   At(kind, k, "requeue") + At(kind, k, "handler") + At(kind, k, "done") = 1
            /\ path[kind][k] \in {"notfound", "skipped"} => At(kind, k, "done") = 1
            /\ (path[kind][k] = "error" /\ At(kind, k, "done") = 1)
                   => Q(kind).failures[k] >= 1)
    /\ [][\A kind \in Kinds : \A k \in Keys(kind) :
            /\ InFlight(kind, k)' < InFlight(kind, k)
                   => (/\ At(kind, k, "done") = 1 /\ At(kind, k, "done")' = 0
                       /\ Q(kind)' = QDone(Q(kind), k)
                       /\ k \in Q(kind).processing /\ k \notin Q(kind)'.processing
                       /\ workers'[kind].top = workers[kind].top + 1)
            /\ (k \in Q(kind).processing /\ k \notin Q(kind)'.processing)
                   => InFlight(kind, k)' < InFlight(kind, k)
            /\ At(kind, k, "requeue")' < At(kind, k, "requeue")
                   => (/\ Q(kind)' = QAddRateLimited(Q(kind), k)
                       /\ At(kind, k, "done")' = 1
                       /\ k \in Q(kind)'.processing)
            /\ (workers'[kind].get < workers[kind].get
                 /\ workers'[kind].top > workers[kind].top)
                   => (Q(kind)' = Q(kind) /\ Q(kind).shuttingDown /\ busy' = busy)]_vars

\* The lookup of va1 failed, AddRateLimited has parked the key and the worker
\* is about to run the deferred Done; the Handler was never called.
C12_Witness ==
    /\ path["va"]["va1"] = "error"
    /\ At("va", "va1", "done") = 1
    /\ "va1" \in vaQueue.processing
    /\ "va1" \in vaQueue.waiting
    /\ vaQueue.failures["va1"] = 1
    /\ ~invoked["va"]

\* What the worker does on the lookup-error path: taking the path calls
\* neither the Handler nor the queue; then AddRateLimited(K) is its one call
\* that counts a failure for K, on K's own queue; then Done, after which the
\* worker is back at the top of its loop and Run is where it was.
C15_ErrorPathSteps ==
    /\ [](\A kind \in Kinds : \A k \in Keys(kind) :
            path[kind][k] = "error" => At(kind, k, "handler") = 0)
    /\ [][\A kind \in Kinds : \A k \in Keys(kind) :
            /\ (path[kind][k] # "error" /\ path'[kind][k] = "error")
                  => (/\ vaQueue' = vaQueue /\ pvQueue' = pvQueue
                      /\ invoked' = invoked
                      /\ At(kind, k, "requeue")' = 1)
            /\ At(kind, k, "requeue")' < At(kind, k, "requeue")
                  => (/\ Q(kind)' = QAddRateLimited(Q(kind), k)
                      /\ Q(kind)'.failures[k] = Q(kind).failures[k] + 1
                      /\ ~Q(kind).shuttingDown => k \in Q(kind)'.waiting
                      /\ Q(OtherKind(kind))' = Q(OtherKind(kind))
                      /\ invoked' = invoked
                      /\ workers' = workers /\ runPc' = runPc
                      /\ At(kind, k, "done")' = 1)
            /\ (path[kind][k] = "error"
                 /\ Q(kind)'.failures[k] # Q(kind).failures[k])
                  => At(kind, k, "requeue")' < At(kind, k, "requeue")
            /\ (path[kind][k] = "error" /\ path'[kind][k] = "none")
                  => (/\ Q(kind)' = QDone(Q(kind), k)
                      /\ workers'[kind].top = workers[kind].top + 1
                      /\ workers'[kind].exited = workers[kind].exited
                      /\ invoked' = invoked
                      /\ runPc' = runPc)]_vars

\* C15 as stated: on a lookup error other than not-found the worker calls
\* AddRateLimited(K) once, calls no Handler and keeps running, and K is
\* handed to a worker again.
C15_Original ==
    /\ C15_ErrorPathSteps
    /\ \A kind \in Kinds : \A k \in Keys(kind) :
          (path[kind][k] = "error" /\ At(kind, k, "done") = 1)
              ~> (At(kind, k, "lookup") = 1)

\* C15 as amended: the same, but K is handed out again only if stopCh is not
\* closed first; a queue that is shutting down drops the parked key.
C15_Amended ==
    /\ C15_ErrorPathSteps
    /\ \A kind \in Kinds : \A k \in Keys(kind) :
          (path[kind][k] = "error" /\ At(kind, k, "done") = 1)
              ~> (stopCh \/ At(kind, k, "lookup") = 1)

\* pv1 was parked after a failed lookup, its delay has elapsed and a worker
\* holds it again, the lookup ahead; the Handler was never called and no
\* notification has added pv1 since the timer did.
C15_Witness ==
    /\ ~stopCh
    /\ At("pv", "pv1", "lookup") = 1
    /\ pvQueue.failures["pv1"] = 1
    /\ "pv1" \notin pvQueue.waiting
    /\ pvQueue.adds["pv1"] = "none"
    /\ ~invoked["pv"]
    /\ path["pv"]["pv1"] = "none"

\* What the worker does on the not-found path: taking the path calls neither
\* the Handler nor the queue and leads straight to Done; until that Done no
\* failure is counted for K and K is not parked (no AddRateLimited), and the
\* Done itself only releases K.
C16_NotFoundSteps ==
    /\ [](\A kind \in Kinds : \A k \in Keys(kind) :
            path[kind][k] = "notfound"
                => (At(kind, k, "handler") = 0 /\ At(kind, k, "requeue") = 0))
    /\ [][\A kind \in Kinds : \A k \in Keys(kind) :
            /\ (path[kind][k] # "notfound" /\ path'[kind][k] = "notfound")
                  => (/\ vaQueue' = vaQueue /\ pvQueue' = pvQueue
                      /\ invoked' = invoked
                      /\ At(kind, k, "done")' = 1)
            /\ path[kind][k] = "notfound"
                  => (/\ Q(kind)'.failures[k] = Q(kind).failures[k]
                      /\ k \in Q(kind)'.waiting => k \in Q(kind).waiting
                      /\ invoked' = invoked)
            /\ (path[kind][k] = "notfound" /\ path'[kind][k] = "none")
                  => (/\ Q(kind)' = QDone(Q(kind), k)
                      /\ Q(kind)'.dirty = Q(kind).dirty
                      /\ Q(kind)'.waiting = Q(kind).waiting
                      /\ Q(OtherKind(kind))' = Q(OtherKind(kind)))]_vars

\* A worker is handed K and K's last finished iteration ended with not-found.
DispatchedAfterNotFound(kind, k) ==
    /\ trace.prev[kind][k] = "notfound"
    /\ At(kind, k, "lookup")' > At(kind, k, "lookup")

\* C16 as stated: on not-found the worker calls neither the Handler nor Add nor
\* AddRateLimited, and K is dispatched again only if a notification or the
\* Handler has added it since it was handed out.
C16_Original ==
    /\ C16_NotFoundSteps
    /\ [][\A kind \in Kinds : \A k \in Keys(kind) :
            DispatchedAfterNotFound(kind, k) => trace.legit[kind][k]]_vars

\* C16 as amended: the same, but K is also dispatched again when the delay of
\* an AddRateLimited(K) elapses that a worker called after a lookup error in
\* an earlier iteration.
C16_Amended ==
    /\ C16_NotFoundSteps
    /\ [][\A kind \in Kinds : \A k \in Keys(kind) :
            DispatchedAfterNotFound(kind, k)
                => (trace.legit[kind][k] \/ trace.backoffAdd[kind][k])]_vars

\* pv1 was looked up and not found, the worker has called Done, and pv1 is
\* pending again: a notification has added it since, no timer has.
C16_Witness ==
    /\ trace.on
    /\ trace.prev["pv"]["pv1"] = "notfound"
    /\ path["pv"]["pv1"] = "none"
    /\ pvQueue.queue = <<"pv1">>
    /\ "pv1" \notin pvQueue.processing
    /\ trace.legit["pv"]["pv1"]
    /\ ~trace.backoffAdd["pv"]["pv1"]
    /\ ~invoked["pv"]

\* C17: the Handler is called for an attachment only if the record the
\* lookup returned names attacherName.  A worker whose lookup returned a
\* record of another attacher goes straight to Done: no Handler call and no
\* queue call (the key is neither added nor rate-limited), and its Done only
\* releases the key.  PersistentVolume keys have no such guard: every
\* PersistentVolume the lookup returns is handed to the Handler.
C17_AttacherGuard ==
    /\ [](/\ \A k \in VAKeys :
               path["va"][k] = "skipped" => (At("va", k, "handler") = 0 /\ At("va", k, "done") = 1)
          /\ \A k \in PVKeys : path["pv"][k] # "skipped")
    /\ [][/\ \A k \in VAKeys :
               /\ At("va", k, "handler")' > At("va", k, "handler")
                     => (vaCache[k] # NotFound /\ vaCache[k].attacher = attacherName)
               /\ (/\ At("va", k, "lookup")' < At("va", k, "lookup")
                    /\ vaCache[k] # NotFound
                    /\ vaCache[k].attacher # attacherName)
                     => (/\ path'["va"][k] \in {"skipped", "error"}
                         /\ invoked' = invoked
                         /\ vaQueue' = vaQueue /\ pvQueue' = pvQueue)
               /\ (path["va"][k] = "skipped" /\ path'["va"][k] = "none")
                     => (/\ vaQueue' = QDone(vaQueue, k)
                         /\ vaQueue'.failures = vaQueue.failures
                         /\ vaQueue'.waiting = vaQueue.waiting
                         /\ vaQueue'.dirty = vaQueue.dirty
                         /\ pvQueue' = pvQueue)
          /\ \A k \in PVKeys :
               (At("pv", k, "lookup")' < At("pv", k, "lookup") /\ pvCache[k] # NotFound)
                     => path'["pv"][k] \in {"handler", "error"}]_vars

\* va1 belongs to another attacher: a worker has looked it up and skipped
\* it, the Handler was never called and nothing was counted or parked.
C17_Witness ==
    /\ path["va"]["va1"] = "skipped"
    /\ vaCache["va1"] # NotFound
    /\ vaCache["va1"].attacher = "csi-other"
    /\ At("va", "va1", "done") = 1
    /\ ~invoked["va"]
    /\ vaQueue.failures["va1"] = 0
    /\ vaQueue.waiting = {}

\* C18: on the path that calls the Handler the worker's own steps (calling
\* the Handler, taking its return) leave both queues as they are, and its
\* last step is Done(key), which changes neither the failure counter nor the
\* parked keys nor the dirty set; while the Handler's call is running the
\* key's failure counter changes only in steps that are no worker steps: the
\* Handler's calls on the queue.
C18_LoopDoesNotRetry ==
    [][\A kind \in Kinds : \A k \in Keys(kind) :
          /\ At(kind, k, "handler")' # At(kind, k, "handler")
                => (vaQueue' = vaQueue /\ pvQueue' = pvQueue)
          /\ (path[kind][k] = "handler" /\ path'[kind][k] = "none")
                => (/\ Q(kind)' = QDone(Q(kind), k)
                    /\ Q(kind)'.failures = Q(kind).failures
                    /\ Q(kind)'.waiting = Q(kind).waiting
                    /\ Q(kind)'.dirty = Q(kind).dirty
                    /\ Q(OtherKind(kind))' = Q(OtherKind(kind)))
          /\ (path[kind][k] = "handler"
               /\ Q(kind)'.failures[k] # Q(kind).failures[k])
                => (busy' = busy /\ workers' = workers /\ At(kind, k, "handler") = 1)]_vars

\* The Handler was called for pv1 and asked for a rate-limited retry; it has
\* returned and the worker is about to call Done.
C18_Witness ==
    /\ path["pv"]["pv1"] = "handler"
    /\ At("pv", "pv1", "done") = 1
    /\ pvQueue.failures["pv1"] = 1
    /\ "pv1" \in pvQueue.waiting
    /\ "pv1" \in pvQueue.processing

\* ------------------------------------------------------- liveness claims
Idle(kind) ==
    /\ workers[kind].top = 0
    /\ workers[kind].get = 0
    /\ \A k \in Keys(kind) : InFlight(kind, k) = 0

\* C7: unless stopCh is closed, a key that an Add has made dirty is later
\* handed out by a Get that follows the Add (the key leaves the dirty set and
\* a worker holds it, the lookup still ahead), and that worker performs the
\* lookup; also when the Add came during the key's processing or before the
\* caches had synced.
C7_NoLostUpdate ==
    \A kind \in Kinds : \A k \in Keys(kind) :
        /\ (k \in Q(kind).dirty)
              ~> (stopCh \/ (k \notin Q(kind).dirty /\ busy[<<kind, k, "lookup">>] > 0))
        /\ (busy[<<kind, k, "lookup">>] > 0) ~> (busy[<<kind, k, "lookup">>] = 0)

\* va1 is added again, before stopCh is closed, while a Handler call for it
\* is running.
C7_Witness ==
    /\ ~stopCh
    /\ busy[<<"va", "va1", "handler">>] = 1
    /\ "va1" \in vaQueue.dirty
    /\ "va1" \in vaQueue.processing

RunReturning == runPc \in {"shutdownPV", "shutdownVA", "returned"}

C10_RunAndLoopsEnd ==
    /\ [](RunReturning => stopCh)
    /\ [](runPc = "returned" => (vaQueue.shuttingDown /\ pvQueue.shuttingDown))
    /\ stopCh ~> (runPc = "returned")
    /\ stopCh ~> (runPc = "returned" /\ \A kind \in Kinds : Idle(kind))

\* C10 as stated: Run does not return before stopCh is closed; then it shuts
\* both queues down and returns, every worker loop ends, and every worker that
\* was blocked in Get when ShutDown was called (the queue was empty) gets
\* shuttingDown=true from it.
C10_Original ==
    /\ C10_RunAndLoopsEnd
    /\ [][\A kind \in Kinds :
            (/\ Q(kind).shuttingDown
             /\ Q(kind).idleAtShutDown
             /\ workers'[kind].get < workers[kind].get)
                => workers'[kind].top > workers[kind].top]_vars

\* C10 as amended: the same, but a worker blocked in Get gets
\* shuttingDown=true only if the queue is still empty when it wakes up; a key
\* put back by a Done after ShutDown is handed to it instead.
C10_Amended ==
    /\ C10_RunAndLoopsEnd
    /\ \A kind \in Kinds :
          (Q(kind).shuttingDown /\ workers[kind].get > 0) ~> (workers[kind].get = 0)
    /\ [][\A kind \in Kinds :
            (/\ Q(kind).shuttingDown
             /\ workers'[kind].get < workers[kind].get)
                => IF Len(Q(kind).queue) = 0
                      THEN workers'[kind].top > workers[kind].top
                      ELSE /\ busy'[<<kind, QGetKey(Q(kind)), "lookup">>] = 1
                           /\ QGetKey(Q(kind)) \notin Q(kind)'.dirty
                           /\ ~InQueue(Q(kind)', QGetKey(Q(kind)))]_vars

\* Both queues are shut down, stopCh closed after a successful sync, and a
\* va worker that was blocked in Get is still in it.
C10_Witness ==
    /\ syncResult = "true"
    /\ runPc = "returned"
    /\ vaQueue.idleAtShutDown
    /\ workers["va"].get >= 1
    /\ \E k \in VAKeys : InFlight("va", k) = 1
====
